---- MODULE Spec2Model ----
(***************************************************************************)
(* Model of src/stock_analysis.py: the market-data ETL pipeline.           *)
(*   setup_database_schema   - schema creation and ticker seeding          *)
(*   download_with_retry     - provider download with retry and back-off   *)
(*   extract_and_load_stocks - per-ticker fetch, normalization, upsert     *)
(*   _create_analytical_view - drop and recreate of v_stock_analysis       *)
(* The database (two tables and one view) is the durable state; a run of   *)
(* the __main__ block is a walk of the program counter pc.                 *)
(***************************************************************************)
EXTENDS Integers, Sequences, FiniteSets, TLC

VARIABLES
    tables,           \* TRUE once ticker_metadata and raw_stocks exist
    view,             \* TRUE while the view v_stock_analysis exists
    ticker_metadata,  \* rows [ticker, company_name, sector] of the table
    raw_stocks,       \* committed rows [Date, Ticker, Price, Volume]
    pc,               \* position of the process in the __main__ block
    runs,             \* number of pipeline runs started
    cfg,              \* the configuration of the current run (load_config)
    pre,              \* the database as it was when the current run started
    tickers,          \* list read from ticker_metadata (line 120)
    idx,              \* 1-based position of the for loop of line 129
    all_frames,       \* list of normalized per-ticker frames (line 127)
    skipped,          \* tickers of this run skipped for lack of data (line 134)
    rows,             \* the batch handed to the upsert (line 163)
    tx,               \* raw_stocks as seen inside the open load transaction
    applied,          \* number of rows of the batch executed in the transaction
    retries,          \* download_with_retry: parameter retries
    attempt,          \* download_with_retry: loop variable attempt
    calls,            \* download_with_retry: provider calls of this invocation
    waited,           \* download_with_retry: back-off seconds of this invocation
    outcomes,         \* download_with_retry: provider outcomes of this invocation
    data,             \* the frame download_with_retry returned
    idle,             \* seconds slept since the last download_with_retry returned
    analysis          \* rows a consumer last read from v_stock_analysis

dbvars    == <<tables, view, ticker_metadata, raw_stocks>>
runvars   == <<runs, cfg, pre>>
loopvars  == <<tickers, idx, all_frames, skipped>>
loadvars  == <<rows, tx, applied>>
fetchvars == <<retries, attempt, calls, waited, outcomes, data>>
vars == <<tables, view, ticker_metadata, raw_stocks, pc, runs, cfg, pre,
          tickers, idx, all_frames, skipped, rows, tx, applied,
          retries, attempt, calls, waited, outcomes, data, idle, analysis>>

(***************************************************************************)
(* Bounds of the model.                                                    *)
(***************************************************************************)
MaxRuns == 2          \* pipeline runs per behaviour
MaxCandidates == 2    \* length of the configuration's ticker list
MaxAttempts == 4      \* largest value of retries tried on download_with_retry alone
MaxBatch == 2         \* rows of a batch handed to the loader alone
MaxLoads == 2         \* times the loader alone is applied to its batch
MaxShort == 3         \* rows of a short price history given to the view alone
MaxBeyond == 1        \* rows of the longest price history beyond the longest window

(***************************************************************************)
(* Program constants.                                                      *)
(***************************************************************************)
DefaultRetries == 3       \* retries: int = 3
BackoffBase == 2          \* sleep_secs = 2 ** attempt
DefaultSleepSecs == 1     \* cfg.get("download_sleep_secs", 1)
Null == -1                \* NaN / NULL (a price the provider left missing)
Sma50Preceding == 49      \* ROWS BETWEEN 49 PRECEDING AND CURRENT ROW
Sma200Preceding == 199    \* ROWS BETWEEN 199 PRECEDING AND CURRENT ROW
HighPreceding == 251      \* ROWS BETWEEN 251 PRECEDING AND CURRENT ROW
ReturnDigits == 4         \* ROUND(..., 4) of daily_return_pct
PctDigits == 2            \* ROUND(..., 2) of pct_from_52wk_high

(***************************************************************************)
(* Generic helpers.                                                        *)
(***************************************************************************)
Range(s) == {s[i] : i \in DOMAIN s}

SeqsUpTo(S, n) == UNION {[1..k -> S] : k \in 0..n}

Perms(S) == {s \in [1..Cardinality(S) -> S] : Range(s) = S}

RECURSIVE Pow(_, _)
Pow(b, e) == IF e = 0 THEN 1 ELSE b * Pow(b, e - 1)

RECURSIVE Flat(_)
Flat(ss) == IF ss = <<>> THEN <<>> ELSE Head(ss) \o Flat(Tail(ss))

\* dict.get(key, default)
CfgGet(c, key, default) == IF key \in DOMAIN c THEN c[key] ELSE default

(***************************************************************************)
(* Input domains.                                                          *)
(***************************************************************************)
Tickers == {"AAPL", "MSFT"}

\* entries of the tickers list of config.yaml
Candidates ==
    { [ticker |-> "AAPL", company_name |-> "Apple",     sector |-> "Technology"],
      [ticker |-> "AAPL", company_name |-> "Apple Inc", sector |-> "Hardware"],
      [ticker |-> "MSFT", company_name |-> "Microsoft", sector |-> "Technology"] }

SleepChoices == {2}

\* config.yaml: either key may be missing
Configs ==
    LET T == [tickers : SeqsUpTo(Candidates, MaxCandidates)]
        S == [download_sleep_secs : SleepChoices]
    IN  T \cup {[tickers |-> c.tickers, download_sleep_secs |-> s.download_sleep_secs]
                   : c \in T, s \in S}
          \cup S

\* index values of a provider frame: a calendar day, with or without a timezone
Stamp(d, tz) == [day |-> d, tz |-> tz]

\* Column labels are tuples: <<"Close">> is a flat label, <<"Close", t>> a
\* label of a two-level (MultiIndex) header.
FlatFrame(t) ==
    [columns |-> {<<"Close">>, <<"Volume">>},
     index   |-> <<Stamp(1, "naive"), Stamp(2, "naive")>>,
     Close   |-> <<100, 102>>,
     Volume  |-> <<10, 20>>]

MultiFrame(t) ==
    [columns |-> {<<"Close", t>>, <<"Volume", t>>, <<"Open", t>>},
     index   |-> <<Stamp(1, "UTC"), Stamp(2, "UTC")>>,
     Close   |-> <<102, Null>>,
     Volume  |-> <<30, 40>>]

MalformedFrame(t) ==
    [columns |-> {<<"Volume", t>>, <<"Open", t>>},
     index   |-> <<Stamp(1, "naive")>>,
     Close   |-> <<Null>>,
     Volume  |-> <<10>>]

\* pd.DataFrame()
EmptyFrame ==
    [columns |-> {}, index |-> <<>>, Close |-> <<>>, Volume |-> <<>>]

\* what one call of yf.download may do: raise, or return a frame
Raised == [raised |-> TRUE, frame |-> EmptyFrame]
Returned(f) == [raised |-> FALSE, frame |-> f]

ProviderOutcomes(t) ==
    {Raised, Returned(EmptyFrame), Returned(FlatFrame(t)),
     Returned(MultiFrame(t)), Returned(MalformedFrame(t))}

\* DataFrame.empty
IsEmpty(f) == f.columns = {} \/ f.index = <<>>

(***************************************************************************)
(* setup_database_schema: seeding of ticker_metadata.                      *)
(* A table is the set of its rows.                                         *)
(***************************************************************************)
EmptyTable == {}

\* SELECT ticker FROM ticker_metadata
SelectTickers(meta) == {m.ticker : m \in meta}

\* new_tickers = [t for t in cfg.get("tickers", []) if t["ticker"] not in existing_set]
NewTickers(existing_set, candidates) ==
    SelectSeq(candidates, LAMBDA t : t.ticker \notin existing_set)

\* INSERT INTO ticker_metadata ... ON CONFLICT (ticker) DO NOTHING, one row
InsertOrIgnore(meta, c) ==
    IF \E m \in meta : m.ticker = c.ticker THEN meta ELSE meta \cup {c}

\* the same statement executed for each element of new_tickers, in order
RECURSIVE InsertAll(_, _)
InsertAll(meta, list) ==
    IF list = <<>> THEN meta
    ELSE InsertAll(InsertOrIgnore(meta, Head(list)), Tail(list))

\* a seed step that overwrites: ON CONFLICT (ticker) DO UPDATE, without the filter
RECURSIVE ReplaceAll(_, _)
ReplaceAll(meta, list) ==
    IF list = <<>> THEN meta
    ELSE ReplaceAll({m \in meta : m.ticker # Head(list).ticker} \cup {Head(list)},
                    Tail(list))

SeedOverwriting(meta, c) == ReplaceAll(meta, CfgGet(c, "tickers", <<>>))

\* lines 68-88: the seed step as a function of the table and the configuration
Seed(meta, c) ==
    InsertAll(meta, NewTickers(SelectTickers(meta), CfgGet(c, "tickers", <<>>)))

(***************************************************************************)
(* download_with_retry.                                                    *)
(***************************************************************************)
\* a loop that runs once more: range(1, retries + 2)
InRangeOneMore(a, r) == a \in 1..(r + 1)

\* for attempt in range(1, retries + 1)
InRange(a, r) == a \in 1..r

\* a back-off after the last attempt too: if attempt <= retries
AttemptsRemainIncludingLast(a, r) == a <= r

\* if attempt < retries
AttemptsRemain(a, r) == a < r

\* sleep_secs = 2 ** attempt
Backoff(a) == Pow(BackoffBase, a)

\* only a raised error counts as a failure: the data.empty test is missing
FailedIfRaised(o) == o.raised

\* a call that raised (caught by except Exception) or returned an empty frame
Failed(o) == o.raised \/ IsEmpty(o.frame)

\* seconds slept at the end of a failed iteration (lines 104-107)
BackoffAfter(a, r) == IF AttemptsRemain(a, r) THEN Backoff(a) ELSE 0

(***************************************************************************)
(* extract_and_load_stocks: normalization and upsert.                      *)
(***************************************************************************)
\* data.columns = [col[0] if isinstance(col, tuple) else col for col in data.columns]
Flatten(columns) == {col[1] : col \in columns}

\* data[["Close", "Volume"]] raises KeyError unless both labels exist
HasColumns(f) == {"Close", "Volume"} \subseteq Flatten(f.columns)

\* lines 142-148: the frame of one ticker in the order Date, Ticker, Price, Volume
DfTicker(f, t) ==
    [i \in 1..Len(f.index) |->
        [Date |-> f.index[i], Ticker |-> t, Price |-> f.Close[i], Volume |-> f.Volume[i]]]

\* df.dropna(subset=["Price"])
DropNa(rs) == SelectSeq(rs, LAMBDA r : r.Price # Null)

\* pd.to_datetime(df["Date"]).dt.date
ToDate(stamp) == stamp.day

\* only the last frame reaches the batch
BatchLastFrame(frames) ==
    LET kept == DropNa(frames[Len(frames)])
    IN  [i \in 1..Len(kept) |->
            [Date |-> ToDate(kept[i].Date), Ticker |-> kept[i].Ticker,
             Price |-> kept[i].Price, Volume |-> kept[i].Volume]]

\* lines 157-163: concat, dropna, date conversion, to_dict(orient="records")
Batch(frames) ==
    LET kept == DropNa(Flat(frames))
    IN  [i \in 1..Len(kept) |->
            [Date |-> ToDate(kept[i].Date), Ticker |-> kept[i].Ticker,
             Price |-> kept[i].Price, Volume |-> kept[i].Volume]]

Key(r) == <<r.Date, r.Ticker>>

\* an upsert that accumulates instead of overwriting
UpsertAdding(store, r) ==
    {x \in store : Key(x) # Key(r)}
        \cup {[Date |-> r.Date, Ticker |-> r.Ticker, Price |-> r.Price,
               Volume |-> r.Volume + x.Volume] : x \in {y \in store : Key(y) = Key(r)}}
        \cup (IF \E y \in store : Key(y) = Key(r) THEN {} ELSE {r})

\* an insert that keeps the row already stored: ON CONFLICT DO NOTHING
UpsertIgnoring(store, r) ==
    IF \E x \in store : Key(x) = Key(r) THEN store ELSE store \cup {r}

\* INSERT ... ON CONFLICT ("Date", "Ticker") DO UPDATE SET "Price", "Volume", one row
Upsert(store, r) == {x \in store : Key(x) # Key(r)} \cup {r}

\* the statement executed for each row of the batch, in order
RECURSIVE UpsertAll(_, _)
UpsertAll(store, rs) ==
    IF rs = <<>> THEN store ELSE UpsertAll(Upsert(store, Head(rs)), Tail(rs))

\* a failure that leaves the rows executed so far visible (no transaction)
RollbackPartial(committed, working) == working

\* engine.begin(): what is visible after the block raised (rollback)
Rollback(committed, working) == committed

\* engine.begin(): what is visible after the block ended normally (commit)
Commit(committed, working) == working

(***************************************************************************)
(* _create_analytical_view: the query behind v_stock_analysis.             *)
(* A nullable value is <<>> (SQL NULL) or <<v>>.  An average is kept as    *)
(* the exact fraction [num, den]; a rounded percentage is kept as the      *)
(* integer number of its last decimal place (2.0000 is 20000).             *)
(***************************************************************************)
None == <<>>
Some(v) == <<v>>

\* NULLIF(v, z)
NullIf(v, z) == IF v = z THEN None ELSE Some(v)

\* ROUND(n / d * 10^digits) for d > 0: numeric rounding, half away from zero
RoundDiv(n, d) ==
    LET a  == IF n < 0 THEN 0 - n ELSE n
        q  == a \div d
        up == IF 2 * (a % d) >= d THEN 1 ELSE 0
    IN  IF n < 0 THEN 0 - (q + up) ELSE q + up

\* a join that drops the price rows without metadata
InnerJoin(store, meta) ==
    UNION {{[Date |-> rs.Date, Ticker |-> rs.Ticker, Price |-> rs.Price,
             Volume |-> rs.Volume, sector |-> Some(m.sector),
             company_name |-> Some(m.company_name)]
               : m \in {x \in meta : x.ticker = rs.Ticker}} : rs \in store}

\* FROM raw_stocks rs LEFT JOIN ticker_metadata m ON rs."Ticker" = m.ticker
LeftJoin(store, meta) ==
    UNION {LET ms == {m \in meta : m.ticker = rs.Ticker}
           IN  IF ms = {}
               THEN {[Date |-> rs.Date, Ticker |-> rs.Ticker, Price |-> rs.Price,
                      Volume |-> rs.Volume, sector |-> None, company_name |-> None]}
               ELSE {[Date |-> rs.Date, Ticker |-> rs.Ticker, Price |-> rs.Price,
                      Volume |-> rs.Volume, sector |-> Some(m.sector),
                      company_name |-> Some(m.company_name)] : m \in ms}
             : rs \in store}

\* a fixed order of the tickers
TickerOrder == CHOOSE f \in [Tickers -> 1..Cardinality(Tickers)] :
                  \A a, b \in Tickers : f[a] = f[b] => a = b

\* y is not after x in ORDER BY rs."Date"
NotAfter(y, x) ==
    \/ y.Date < x.Date
    \/ y.Date = x.Date /\ TickerOrder[y.Ticker] <= TickerOrder[x.Ticker]

\* a window over the whole table: PARTITION BY is missing
PartitionAll(joined, t) == joined

\* PARTITION BY rs."Ticker"
Partition(joined, t) == {x \in joined : x.Ticker = t}

\* ORDER BY rs."Date": the rows of a partition, earliest first
\* (dates are unique within a ticker; rows of equal date, which only a window
\* over several tickers meets, are taken in the order of TickerOrder)
Ordered(part) ==
    LET n      == Cardinality(part)
        ranked == {<<Cardinality({y \in part : NotAfter(y, x)}), x>> : x \in part}
    IN  SubSeq([i \in 1..n |-> (CHOOSE p \in ranked : p[1] = i)[2]], 1, n)

\* a frame that reaches one row further back
FrameStartOneMore(i, preceding) ==
    IF i - (preceding + 1) < 1 THEN 1 ELSE i - (preceding + 1)

\* ROWS BETWEEN preceding PRECEDING AND CURRENT ROW: the first row of the frame
FrameStart(i, preceding) == IF i - preceding < 1 THEN 1 ELSE i - preceding

\* SUM of Price over the rows lo..hi of the ordered partition
RECURSIVE SumPrices(_, _, _)
SumPrices(o, lo, hi) ==
    IF lo > hi THEN 0
    ELSE IF lo = hi THEN o[lo].Price
    ELSE LET mid == (lo + hi) \div 2
         IN  SumPrices(o, lo, mid) + SumPrices(o, mid + 1, hi)

\* an average over a frame that is one row shorter
AvgShorter(o, i, preceding) ==
    [num |-> SumPrices(o, FrameStart(i, preceding - 1), i),
     den |-> i - FrameStart(i, preceding - 1) + 1]

\* AVG(rs."Price") OVER (... ROWS BETWEEN preceding PRECEDING AND CURRENT ROW)
Avg(o, i, preceding) ==
    [num |-> SumPrices(o, FrameStart(i, preceding), i),
     den |-> i - FrameStart(i, preceding) + 1]

\* a maximum over the rows before the current one (the current row when alone)
RECURSIVE MaxPriceRange(_, _, _)
MaxPriceRange(o, lo, hi) ==
    IF lo = hi THEN o[lo].Price
    ELSE LET mid == (lo + hi) \div 2
             l   == MaxPriceRange(o, lo, mid)
             r   == MaxPriceRange(o, mid + 1, hi)
         IN  IF l > r THEN l ELSE r

MaxPricePreceding(o, lo, hi) ==
    IF lo >= hi THEN o[lo].Price ELSE MaxPriceRange(o, lo, hi - 1)

\* MAX(rs."Price") over the rows lo..hi of the ordered partition
RECURSIVE MaxPrice(_, _, _)
MaxPrice(o, lo, hi) ==
    IF lo = hi THEN o[lo].Price
    ELSE LET mid == (lo + hi) \div 2
             l   == MaxPrice(o, lo, mid)
             r   == MaxPrice(o, mid + 1, hi)
         IN  IF l > r THEN l ELSE r

\* MAX(rs."Price") OVER (... ROWS BETWEEN preceding PRECEDING AND CURRENT ROW)
High(o, i, preceding) == MaxPrice(o, FrameStart(i, preceding), i)

\* a lag of two rows
LagTwo(o, i) == IF i <= 2 THEN None ELSE Some(o[i - 2].Price)

\* LAG(rs."Price") OVER w
Lag(o, i) == IF i = 1 THEN None ELSE Some(o[i - 1].Price)

\* ROUND(((Price - LAG) / NULLIF(LAG, 0)) * 100, 4)
DailyReturnPct(price, lag) ==
    IF lag = None THEN None
    ELSE IF NullIf(lag[1], 0) = None THEN None
    ELSE Some(RoundDiv((price - lag[1]) * 100 * Pow(10, ReturnDigits), lag[1]))

\* a > b and a < b for exact fractions with positive denominators
Greater(a, b) == a.num * b.den > b.num * a.den
Less(a, b) == a.num * b.den < b.num * a.den

\* a signal without the Neutral branch
TrendSignalNoNeutral(sma_50, sma_200) ==
    IF Less(sma_50, sma_200) THEN "Bearish" ELSE "Bullish"

\* CASE WHEN sma_50 > sma_200 THEN 'Bullish' WHEN sma_50 < sma_200 THEN 'Bearish'
\* ELSE 'Neutral' END
TrendSignal(sma_50, sma_200) ==
    IF Greater(sma_50, sma_200) THEN "Bullish"
    ELSE IF Less(sma_50, sma_200) THEN "Bearish"
    ELSE "Neutral"

\* ROUND((("Price" - high_52week) / NULLIF(high_52week, 0)) * 100, 2)
PctFromHigh(price, high) ==
    IF NullIf(high, 0) = None THEN None
    ELSE Some(RoundDiv((price - high) * 100 * Pow(10, PctDigits), high))

\* lines 191-220: row i of an ordered partition in the CTE calculations
Calculation(o, i) ==
    [Date |-> o[i].Date, Ticker |-> o[i].Ticker, Price |-> o[i].Price,
     Volume |-> o[i].Volume, sector |-> o[i].sector,
     company_name |-> o[i].company_name,
     daily_return_pct |-> DailyReturnPct(o[i].Price, Lag(o, i)),
     sma_50 |-> Avg(o, i, Sma50Preceding),
     sma_200 |-> Avg(o, i, Sma200Preceding),
     high_52week |-> High(o, i, HighPreceding)]

\* lines 190-221: WITH calculations AS (...)
Calculations(store, meta) ==
    LET joined == LeftJoin(store, meta)
    IN  UNION {LET o == Ordered(Partition(joined, t))
               IN  {Calculation(o, i) : i \in DOMAIN o}
                 : t \in {x.Ticker : x \in joined}}

\* lines 222-232: SELECT *, CASE ... AS trend_signal, ROUND(...) AS pct_from_52wk_high
VStockAnalysis(store, meta) ==
    {[Date |-> c.Date, Ticker |-> c.Ticker, Price |-> c.Price, Volume |-> c.Volume,
      sector |-> c.sector, company_name |-> c.company_name,
      daily_return_pct |-> c.daily_return_pct,
      sma_50 |-> c.sma_50, sma_200 |-> c.sma_200, high_52week |-> c.high_52week,
      trend_signal |-> TrendSignal(c.sma_50, c.sma_200),
      pct_from_52wk_high |-> PctFromHigh(c.Price, c.high_52week)]
        : c \in Calculations(store, meta)}

(***************************************************************************)
(* State machine.                                                          *)
(***************************************************************************)
Db == [tables |-> tables, view |-> view,
       ticker_metadata |-> ticker_metadata, raw_stocks |-> raw_stocks]

NoConfig == [k \in {} |-> Null]

\* the ticker the for loop of line 129 is at
Ticker == tickers[idx]

\* the values the variables of download_with_retry have on entry
EnterDownload ==
    /\ attempt' = 1
    /\ calls' = 0
    /\ waited' = 0
    /\ outcomes' = <<>>
    /\ data' = EmptyFrame

\* a fresh database, before the first run
Init ==
    /\ tables = FALSE
    /\ view = FALSE
    /\ ticker_metadata = EmptyTable
    /\ raw_stocks = EmptyTable
    /\ pc = "idle"
    /\ runs = 0
    /\ cfg = NoConfig
    /\ pre = [tables |-> FALSE, view |-> FALSE,
              ticker_metadata |-> EmptyTable, raw_stocks |-> EmptyTable]
    /\ tickers = <<>>
    /\ idx = 0
    /\ all_frames = <<>>
    /\ skipped = {}
    /\ rows = <<>>
    /\ tx = EmptyTable
    /\ applied = 0
    /\ retries = DefaultRetries
    /\ attempt = 1
    /\ calls = 0
    /\ waited = 0
    /\ outcomes = <<>>
    /\ data = EmptyFrame
    /\ idle = 0
    /\ analysis = {}

\* lines 237-239: the process starts and load_config() returns a configuration
StartRun ==
    /\ pc = "idle"
    /\ runs < MaxRuns
    /\ \E c \in Configs : cfg' = c
    /\ runs' = runs + 1
    /\ pre' = Db
    /\ pc' = "setup"
    /\ UNCHANGED <<analysis, dbvars, loopvars, loadvars, fetchvars, idle>>

\* lines 46-90: setup_database_schema, one transaction
SetupSchema ==
    /\ pc = "setup"
    /\ view' = FALSE
    /\ tables' = TRUE
    /\ ticker_metadata' = Seed(ticker_metadata, cfg)
    /\ pc' = "read"
    /\ UNCHANGED <<analysis, raw_stocks, runvars, loopvars, loadvars, fetchvars, idle>>

\* lines 119-124: no ticker in ticker_metadata, the function returns
AbortNoTickers ==
    /\ pc = "read"
    /\ ticker_metadata = EmptyTable
    /\ pc' = "done"
    /\ UNCHANGED <<analysis, dbvars, runvars, loopvars, loadvars, fetchvars, idle>>

\* lines 119-131: the ticker list is read (SELECT without ORDER BY: any order)
\* and the loop enters download_with_retry for the first ticker
ReadTickers ==
    /\ pc = "read"
    /\ ticker_metadata # EmptyTable
    /\ \E order \in Perms(SelectTickers(ticker_metadata)) : tickers' = order
    /\ idx' = 1
    /\ all_frames' = <<>>
    /\ skipped' = {}
    /\ EnterDownload
    /\ idle' = 0
    /\ pc' = "download"
    /\ UNCHANGED <<analysis, dbvars, runvars, loadvars, retries>>

\* lines 98-100: the provider returns a non-empty frame
DownloadReturn ==
    /\ pc = "download"
    /\ \E o \in ProviderOutcomes(Ticker) :
          /\ ~Failed(o)
          /\ outcomes' = Append(outcomes, o)
          /\ data' = o.frame
    /\ calls' = calls + 1
    /\ idle' = 0
    /\ pc' = "fetched"
    /\ UNCHANGED <<analysis, dbvars, runvars, loopvars, loadvars, retries, attempt, waited>>

\* lines 98-107: the call fails and the loop has another iteration
DownloadRetry ==
    /\ pc = "download"
    /\ InRange(attempt + 1, retries)
    /\ \E o \in ProviderOutcomes(Ticker) :
          /\ Failed(o)
          /\ outcomes' = Append(outcomes, o)
    /\ calls' = calls + 1
    /\ waited' = waited + BackoffAfter(attempt, retries)
    /\ attempt' = attempt + 1
    /\ UNCHANGED <<analysis, dbvars, runvars, loopvars, loadvars, retries, data, idle, pc>>

\* lines 98-108: the call fails in the last iteration, pd.DataFrame() is returned
DownloadGiveUp ==
    /\ pc = "download"
    /\ ~InRange(attempt + 1, retries)
    /\ \E o \in ProviderOutcomes(Ticker) :
          /\ Failed(o)
          /\ outcomes' = Append(outcomes, o)
    /\ calls' = calls + 1
    /\ waited' = waited + BackoffAfter(attempt, retries)
    /\ data' = EmptyFrame
    /\ idle' = 0
    /\ pc' = "fetched"
    /\ UNCHANGED <<analysis, dbvars, runvars, loopvars, loadvars, retries, attempt>>

\* the loop ends after its first ticker (break instead of the next iteration)
NextTickerBreak ==
    /\ idx' = idx + 1
    /\ EnterDownload
    /\ pc' = "concat"

\* the for loop of line 129 moves on: the next ticker, or line 153
NextTicker ==
    /\ idx' = idx + 1
    /\ EnterDownload
    /\ pc' = IF idx < Len(tickers) THEN "download" ELSE "concat"

\* lines 133-135: empty data, the ticker is skipped (continue)
SkipTicker ==
    /\ pc = "fetched"
    /\ IsEmpty(data)
    /\ skipped' = skipped \cup {Ticker}
    /\ NextTicker
    /\ UNCHANGED <<analysis, dbvars, runvars, tickers, all_frames, loadvars, retries, idle>>

\* lines 138-143: data[["Close", "Volume"]] raises KeyError, which nothing catches
NormalizeRaises ==
    /\ pc = "fetched"
    /\ ~IsEmpty(data)
    /\ ~HasColumns(data)
    /\ pc' = "crashed"
    /\ UNCHANGED <<analysis, dbvars, runvars, loopvars, loadvars, fetchvars, idle>>

\* lines 138-151: the frame is normalized and kept, then time.sleep
AppendFrame ==
    /\ pc = "fetched"
    /\ ~IsEmpty(data)
    /\ HasColumns(data)
    /\ all_frames' = Append(all_frames, DfTicker(data, Ticker))
    /\ idle' = idle + CfgGet(cfg, "download_sleep_secs", DefaultSleepSecs)
    /\ NextTicker
    /\ UNCHANGED <<analysis, dbvars, runvars, tickers, skipped, loadvars, retries>>

\* lines 153-155: nothing was downloaded, the function returns
AbortNoData ==
    /\ pc = "concat"
    /\ all_frames = <<>>
    /\ pc' = "done"
    /\ UNCHANGED <<analysis, dbvars, runvars, loopvars, loadvars, fetchvars, idle>>

\* lines 157-165: the batch is built and the load transaction begins
BeginLoad ==
    /\ pc = "concat"
    /\ all_frames # <<>>
    /\ rows' = Batch(all_frames)
    /\ tx' = raw_stocks
    /\ applied' = 0
    /\ pc' = "load"
    /\ UNCHANGED <<analysis, dbvars, runvars, loopvars, fetchvars, idle>>

\* lines 166-175: the statement is executed for the next row of the batch
LoadRow ==
    /\ pc = "load"
    /\ applied < Len(rows)
    /\ tx' = Upsert(tx, rows[applied + 1])
    /\ applied' = applied + 1
    /\ UNCHANGED <<analysis, dbvars, runvars, loopvars, rows, fetchvars, idle, pc>>

\* lines 165-175: the store fails at a row or at the commit; engine.begin()
\* rolls back and the error leaves the function
LoadFails ==
    /\ pc = "load"
    /\ raw_stocks' = Rollback(raw_stocks, tx)
    /\ pc' = "failed"
    /\ UNCHANGED <<analysis, tables, view, ticker_metadata, runvars, loopvars, loadvars,
                   fetchvars, idle>>

\* line 165: the with block ends, engine.begin() commits
LoadCommit ==
    /\ pc = "load"
    /\ applied = Len(rows)
    /\ raw_stocks' = Commit(raw_stocks, tx)
    /\ pc' = "view"
    /\ UNCHANGED <<analysis, tables, view, ticker_metadata, runvars, loopvars, loadvars,
                   fetchvars, idle>>

\* lines 183-234: _create_analytical_view, DROP VIEW IF EXISTS then CREATE VIEW
CreateView ==
    /\ pc = "view"
    /\ view' = TRUE
    /\ pc' = "done"
    /\ UNCHANGED <<analysis, tables, ticker_metadata, raw_stocks, runvars, loopvars,
                   loadvars, fetchvars, idle>>

\* the process ends; nothing but the database outlives it
EndRun ==
    /\ pc \in {"done", "failed", "crashed"}
    /\ pc' = "idle"
    /\ cfg' = NoConfig
    /\ pre' = Db
    /\ tickers' = <<>>
    /\ idx' = 0
    /\ all_frames' = <<>>
    /\ skipped' = {}
    /\ rows' = <<>>
    /\ tx' = EmptyTable
    /\ applied' = 0
    /\ EnterDownload
    /\ idle' = 0
    /\ UNCHANGED <<analysis, dbvars, runs, retries>>

Next ==
    \/ StartRun
    \/ SetupSchema
    \/ AbortNoTickers
    \/ ReadTickers
    \/ DownloadReturn
    \/ DownloadRetry
    \/ DownloadGiveUp
    \/ SkipTicker
    \/ NormalizeRaises
    \/ AppendFrame
    \/ AbortNoData
    \/ BeginLoad
    \/ LoadRow
    \/ LoadFails
    \/ LoadCommit
    \/ CreateView
    \/ EndRun

Spec == Init /\ [][Next]_vars

(***************************************************************************)
(* download_with_retry alone: any ticker, any retries >= 1.                *)
(***************************************************************************)
InitFetch ==
    /\ tables = TRUE
    /\ view = FALSE
    /\ ticker_metadata = EmptyTable
    /\ raw_stocks = EmptyTable
    /\ pc = "download"
    /\ runs = 1
    /\ cfg = NoConfig
    /\ pre = [tables |-> TRUE, view |-> FALSE,
              ticker_metadata |-> EmptyTable, raw_stocks |-> EmptyTable]
    /\ \E t \in Tickers : tickers = <<t>>
    /\ idx = 1
    /\ all_frames = <<>>
    /\ skipped = {}
    /\ rows = <<>>
    /\ tx = EmptyTable
    /\ applied = 0
    /\ retries \in 1..MaxAttempts
    /\ attempt = 1
    /\ calls = 0
    /\ waited = 0
    /\ outcomes = <<>>
    /\ data = EmptyFrame
    /\ idle = 0
    /\ analysis = {}

NextFetch ==
    \/ DownloadReturn
    \/ DownloadRetry
    \/ DownloadGiveUp

SpecFetch == InitFetch /\ [][NextFetch]_vars

(***************************************************************************)
(* The load transaction alone (lines 165-175): any store that respects the *)
(* primary key, any non-empty batch, applied MaxLoads times.               *)
(***************************************************************************)
PriceRows ==
    {[Date |-> d, Ticker |-> t, Price |-> pv[1], Volume |-> pv[2]] :
        d \in {1, 2}, t \in Tickers, pv \in {<<100, 10>>, <<102, 30>>}}

Batches == SeqsUpTo(PriceRows, MaxBatch) \ {<<>>}

Stores == {UpsertAll(EmptyTable, b) : b \in SeqsUpTo(PriceRows, MaxBatch)}

InitLoader ==
    /\ tables = TRUE
    /\ view = FALSE
    /\ ticker_metadata = EmptyTable
    /\ raw_stocks \in Stores
    /\ pc = "load"
    /\ runs = 1
    /\ cfg = NoConfig
    /\ pre = [tables |-> TRUE, view |-> FALSE,
              ticker_metadata |-> EmptyTable, raw_stocks |-> raw_stocks]
    /\ tickers = <<>>
    /\ idx = 0
    /\ all_frames = <<>>
    /\ skipped = {}
    /\ rows \in Batches
    /\ tx = raw_stocks
    /\ applied = 0
    /\ retries = DefaultRetries
    /\ attempt = 1
    /\ calls = 0
    /\ waited = 0
    /\ outcomes = <<>>
    /\ data = EmptyFrame
    /\ idle = 0
    /\ analysis = {}

\* lines 165-175 entered again with the same rows
LoadAgain ==
    /\ pc = "view"
    /\ runs < MaxLoads
    /\ runs' = runs + 1
    /\ pre' = Db
    /\ tx' = raw_stocks
    /\ applied' = 0
    /\ pc' = "load"
    /\ UNCHANGED <<analysis, dbvars, cfg, loopvars, rows, fetchvars, idle>>

NextLoader ==
    \/ LoadRow
    \/ LoadFails
    \/ LoadCommit
    \/ LoadAgain

SpecLoader == InitLoader /\ [][NextLoader]_vars

(***************************************************************************)
(* The view alone: a consumer reads v_stock_analysis over any of a family  *)
(* of price stores the loader can have built, and metadata tables.         *)
(***************************************************************************)
\* the rows of one ticker, one every gap days, with the prices given in order
History(t, prices, gap) ==
    {[Date |-> gap * i, Ticker |-> t, Price |-> prices[i], Volume |-> 10 * i]
        : i \in DOMAIN prices}

\* n prices: a before position k, b from position k on
StepPrices(n, k, a, b) == [i \in 1..n |-> IF i < k THEN a ELSE b]

ShortHistories ==
    {History("AAPL", ps, 3) : ps \in SeqsUpTo({0, 3, 4, 100, 102}, MaxShort)}
      \cup {History("AAPL", ps, 3) : ps \in SeqsUpTo({20000, 20001}, MaxShort)}

\* longer than the longest window, so that every frame slides at least once
LongLength == HighPreceding + 1 + MaxBeyond

LongHistories ==
    {History("AAPL", StepPrices(LongLength, k, ab[1], ab[2]), 1) :
        k \in {2, Sma50Preceding + 2}, ab \in {<<100, 102>>, <<102, 100>>}}

\* the other ticker: no rows, rows on other dates, rows on the same dates
OtherHistories ==
    {{}, History("MSFT", <<4, 100, 3>>, 2), History("MSFT", <<102, 100>>, 3)}

MetadataTables ==
    {{[ticker |-> "AAPL", company_name |-> "Apple", sector |-> "Technology"]},
     {[ticker |-> "AAPL", company_name |-> "Apple", sector |-> "Technology"],
      [ticker |-> "MSFT", company_name |-> "Microsoft", sector |-> "Technology"]}}

InitView ==
    /\ tables = TRUE
    /\ view = TRUE
    /\ ticker_metadata \in MetadataTables
    /\ \E h \in ShortHistories \cup LongHistories : \E m \in OtherHistories :
          raw_stocks = h \cup m
    /\ pc = "done"
    /\ runs = 1
    /\ cfg = NoConfig
    /\ pre = [tables |-> TRUE, view |-> TRUE,
              ticker_metadata |-> ticker_metadata, raw_stocks |-> raw_stocks]
    /\ tickers = <<>>
    /\ idx = 0
    /\ all_frames = <<>>
    /\ skipped = {}
    /\ rows = <<>>
    /\ tx = EmptyTable
    /\ applied = 0
    /\ retries = DefaultRetries
    /\ attempt = 1
    /\ calls = 0
    /\ waited = 0
    /\ outcomes = <<>>
    /\ data = EmptyFrame
    /\ idle = 0
    /\ analysis = {}

\* SELECT * FROM v_stock_analysis, by a consumer of the view
QueryView ==
    /\ pc = "done"
    /\ view
    /\ analysis' = VStockAnalysis(raw_stocks, ticker_metadata)
    /\ pc' = "queried"
    /\ UNCHANGED <<dbvars, runvars, loopvars, loadvars, fetchvars, idle>>

NextView == QueryView

SpecView == InitView /\ [][NextView]_vars

(***************************************************************************)
(* Properties.                                                             *)
(***************************************************************************)
AllFailed == \A i \in DOMAIN outcomes : Failed(outcomes[i])

\* C1 (SpecFetch): when every provider call fails (raises or returns an empty
\* frame, in any mix), download_with_retry makes exactly retries calls, never
\* more, then returns an empty frame; the error of a call never leaves the
\* function (the process is only ever inside it or back at its caller).
RetryBound ==
    /\ pc \in {"download", "fetched"}
    /\ AllFailed => calls <= retries
    /\ (pc = "fetched" /\ AllFailed) =>
          /\ calls = retries
          /\ Len(outcomes) = retries
          /\ IsEmpty(data)

\* the function gave up after MaxAttempts calls, some raising, some empty
RetryBoundWitness ==
    /\ pc = "fetched"
    /\ retries = MaxAttempts
    /\ AllFailed
    /\ IsEmpty(data)
    /\ \E i \in DOMAIN outcomes : outcomes[i].raised
    /\ \E i \in DOMAIN outcomes : ~outcomes[i].raised

BatchKeys == {Key(rows[i]) : i \in DOMAIN rows}

\* the row of the batch that is executed last for the key k
LastFor(k) ==
    rows[CHOOSE i \in DOMAIN rows :
            /\ Key(rows[i]) = k
            /\ \A j \in DOMAIN rows : Key(rows[j]) = k => j <= i]

OneRowPerKey(store) == \A x, y \in store : Key(x) = Key(y) => x = y

\* C2 (SpecLoader): applying the upsert of a batch a second time leaves the
\* price store as the first application left it; after each application every
\* (date, ticker) of the batch is stored exactly once, with the price and
\* volume the batch gives it.
LoaderIdempotent ==
    pc = "view" =>
        /\ runs >= 2 => raw_stocks = pre.raw_stocks
        /\ OneRowPerKey(raw_stocks)
        /\ \A k \in BatchKeys : LastFor(k) \in raw_stocks

\* the second application committed, over a batch of two keys, into a store
\* that holds rows of other keys too
LoaderIdempotentWitness ==
    /\ pc = "view"
    /\ runs = 2
    /\ Cardinality(BatchKeys) = 2
    /\ Cardinality(raw_stocks) > 2

\* C3 (Spec): the price store never holds two rows of one (date, ticker); the
\* commit of a batch leaves every key of the batch with the batch's price and
\* volume (inserted if absent, overwritten if present), and every stored row
\* of another key as it was, none removed and none added.
LastWriteWins ==
    /\ OneRowPerKey(raw_stocks)
    /\ pc = "view" =>
          /\ \A k \in BatchKeys : LastFor(k) \in raw_stocks
          /\ \A x \in pre.raw_stocks : Key(x) \notin BatchKeys => x \in raw_stocks
          /\ \A x \in raw_stocks : Key(x) \in BatchKeys \/ x \in pre.raw_stocks

\* a commit that overwrote one stored row, inserted a new key and left a
\* stored row of a third key alone
LastWriteWinsWitness ==
    /\ pc = "view"
    /\ \E x \in pre.raw_stocks :
          Key(x) \in BatchKeys /\ LastFor(Key(x)).Price # x.Price
    /\ \E k \in BatchKeys : \A x \in pre.raw_stocks : Key(x) # k
    /\ \E x \in pre.raw_stocks : Key(x) \notin BatchKeys

SeedCandidates == CfgGet(cfg, "tickers", <<>>)

\* C4 (Spec): after the seed step every row that was in ticker_metadata is
\* still there unchanged, the tickers stored are those stored before plus
\* those of the candidates, each new row is one of the candidates, no ticker
\* has two rows, and seeding again with the same list would insert nothing.
SeedNonDestructive ==
    pc = "read" =>
        /\ pre.ticker_metadata \subseteq ticker_metadata
        /\ SelectTickers(ticker_metadata) =
              SelectTickers(pre.ticker_metadata)
                 \cup {SeedCandidates[i].ticker : i \in DOMAIN SeedCandidates}
        /\ ticker_metadata \ pre.ticker_metadata \subseteq Range(SeedCandidates)
        /\ \A m, n \in ticker_metadata : m.ticker = n.ticker => m = n
        /\ NewTickers(SelectTickers(ticker_metadata), SeedCandidates) = <<>>
        /\ Seed(ticker_metadata, cfg) = ticker_metadata

\* a seed over a non-empty table, with a candidate whose ticker was stored
\* under another company name and a candidate whose ticker was new
SeedNonDestructiveWitness ==
    /\ pc = "read"
    /\ \E i \in DOMAIN SeedCandidates : \E m \in pre.ticker_metadata :
          /\ m.ticker = SeedCandidates[i].ticker
          /\ m.company_name # SeedCandidates[i].company_name
    /\ \E i \in DOMAIN SeedCandidates :
          SeedCandidates[i].ticker \notin SelectTickers(pre.ticker_metadata)

\* the rows of ticker t in a price table
RowsOf(store, t) == {x \in store : x.Ticker = t}

\* C5 (Spec): a ticker whose fetch ended empty is skipped and the run goes on:
\* when the load of the run commits, every row with a price that was fetched
\* for the tickers that yielded data is stored; the skipped tickers have the
\* price rows they had before the run, and are still in ticker_metadata.
SkipWithoutAbort ==
    /\ pc \in {"view", "done", "failed"} =>
          \A t \in skipped :
              /\ RowsOf(raw_stocks, t) = RowsOf(pre.raw_stocks, t)
              /\ t \in SelectTickers(ticker_metadata)
    /\ pc = "view" =>
          \A i \in DOMAIN all_frames : \A j \in DOMAIN all_frames[i] :
              LET r == all_frames[i][j]
              IN  r.Price # Null =>
                    [Date |-> r.Date.day, Ticker |-> r.Ticker,
                     Price |-> r.Price, Volume |-> r.Volume] \in raw_stocks

\* a committed load of a run in which one ticker was skipped and another
\* yielded rows, after the skipped one
SkipWithoutAbortWitness ==
    /\ pc = "view"
    /\ skipped # {}
    /\ Len(tickers) = 2
    /\ tickers[1] \in skipped
    /\ all_frames # <<>>
    /\ RowsOf(raw_stocks, tickers[2]) # RowsOf(pre.raw_stocks, tickers[2])

\* C6 (Spec): the load is atomic: while the transaction is open and after it
\* failed, the price store is the one the run started with; after it
\* committed, the price store holds the whole batch.
LoadAtomic ==
    /\ pc \in {"load", "failed"} => raw_stocks = pre.raw_stocks
    /\ pc = "view" => raw_stocks = UpsertAll(pre.raw_stocks, rows)

\* the store failed after at least one row of the batch had changed the table
LoadAtomicWitness ==
    /\ pc = "failed"
    /\ applied >= 1
    /\ applied < Len(rows)
    /\ tx # pre.raw_stocks

\* C7 (Spec): at the end of every run that finished without a storage
\* error, the view v_stock_analysis exists.
ViewAfterEveryRun == pc = "done" => view

\* C8 (Spec): when the first provider call of a ticker that is not the first
\* of the list is about to be made, the configured delay has elapsed since
\* the fetch of the ticker before it ended.
DelayBetweenTickers ==
    (pc = "download" /\ idx > 1 /\ calls = 0) =>
        idle >= CfgGet(cfg, "download_sleep_secs", DefaultSleepSecs)

\* C9 (Spec): a non-empty frame without the Close or Volume column is treated
\* like empty data: its ticker is skipped and the loop goes on.
MalformedIsSkipped ==
    [][(pc = "fetched" /\ ~IsEmpty(data) /\ ~HasColumns(data)) =>
          (pc' \in {"download", "concat"} /\ tickers[idx] \in skipped')]_vars

\* C10 (Spec): a run whose configuration has no ticker list, or an empty one,
\* makes no provider call and leaves the database as it found it.
NoTickersNoRun ==
    (pc # "idle" /\ CfgGet(cfg, "tickers", <<>>) = <<>>) =>
        /\ Db = pre
        /\ pc \notin {"download", "fetched"}
        /\ calls = 0

\* a call that returned a non-empty frame
Yielded(o) == ~o.raised /\ o.frame.columns # {} /\ o.frame.index # <<>>

\* C16 (SpecFetch): the function waits 2^a seconds after each failed attempt
\* a that is not the last one, and at no other time: when attempt k is about
\* to be made, and when the function has returned after k calls, the seconds
\* waited are 2 + 4 + ... + 2^(k-1) = 2^k - 2; against a provider that always
\* fails that is 2^retries - 2.
BackoffSchedule ==
    /\ pc = "download" => waited = Pow(2, attempt) - 2
    /\ pc = "fetched" => waited = Pow(2, calls) - 2
    /\ (pc = "fetched" /\ AllFailed) => waited = Pow(2, retries) - 2

\* the function gave up after MaxAttempts failed calls
BackoffScheduleWitness ==
    /\ pc = "fetched"
    /\ AllFailed
    /\ retries = MaxAttempts
    /\ calls = MaxAttempts
    /\ waited = Pow(2, MaxAttempts) - 2

\* C17 (SpecFetch): the function returns a non-empty frame exactly when one of
\* its calls returned one; that call is then the last call made, every call
\* before it failed, and its frame is the result; when no call returns one,
\* all retries calls are made.
FirstNonEmptyWins ==
    /\ calls = Len(outcomes)
    /\ calls <= retries
    /\ \A i \in DOMAIN outcomes : Yielded(outcomes[i]) => i = Len(outcomes)
    /\ pc = "fetched" =>
          LET good == {i \in DOMAIN outcomes : Yielded(outcomes[i])}
          IN  /\ (data.columns # {} /\ data.index # <<>>) <=> good # {}
              /\ good # {} => good = {calls} /\ data = outcomes[calls].frame
              /\ good = {} => calls = retries

\* a frame returned by the third call, after a raised error and an empty frame
FirstNonEmptyWinsWitness ==
    /\ pc = "fetched"
    /\ retries = MaxAttempts
    /\ calls = 3
    /\ outcomes[1].raised
    /\ ~outcomes[2].raised
    /\ Yielded(outcomes[3])
    /\ data = outcomes[3].frame

\* C18 (Spec): the phases of a run follow one another: the schema and the
\* seed are committed before the ticker list is read; a ticker's fetch starts
\* when all tickers before it are finished (kept or skipped); the load
\* transaction is open only when every ticker is finished; the view is
\* rebuilt only after the load committed, and not at all after a failed load.
PhaseOrder ==
    /\ pc \notin {"idle", "setup"} =>
          /\ tables
          /\ ticker_metadata = Seed(pre.ticker_metadata, cfg)
    /\ pc \in {"download", "fetched"} =>
          /\ Range(tickers) = SelectTickers(ticker_metadata)
          /\ idx \in 1..Len(tickers)
          /\ Len(all_frames) + Cardinality(skipped) = idx - 1
          /\ raw_stocks = pre.raw_stocks
    /\ pc \in {"load", "view"} =>
          /\ idx = Len(tickers) + 1
          /\ Len(all_frames) + Cardinality(skipped) = Len(tickers)
    /\ pc = "load" => raw_stocks = pre.raw_stocks
    /\ pc = "view" =>
          /\ applied = Len(rows)
          /\ raw_stocks = UpsertAll(pre.raw_stocks, rows)
    /\ pc \in {"read", "download", "fetched", "concat", "load", "view",
               "failed", "crashed"} => ~view

\* the load of a run over two tickers, both kept, has committed and the view
\* is about to be rebuilt
PhaseOrderWitness ==
    /\ pc = "view"
    /\ Len(tickers) = 2
    /\ Len(all_frames) = 2
    /\ raw_stocks # pre.raw_stocks

(***************************************************************************)
(* Properties of the view.  The helpers below restate, from the price      *)
(* store, what the rows of the view are claimed to show.                   *)
(***************************************************************************)
StoredTickers == {x.Ticker : x \in raw_stocks}

\* 1-based position of each date of ticker t in date order (k + 1 for row k)
PositionByDate(t) ==
    [d \in {x.Date : x \in RowsOf(raw_stocks, t)} |->
        Cardinality({y \in RowsOf(raw_stocks, t) : y.Date <= d})]

\* the stored prices of ticker t as a sequence in date order
PriceByPosition(t) ==
    LET part   == RowsOf(raw_stocks, t)
        n      == Cardinality(part)
        ranked == {<<Cardinality({y \in part : y.Date <= x.Date}), x.Price>> : x \in part}
    IN  SubSeq([i \in 1..n |-> (CHOOSE p \in ranked : p[1] = i)[2]], 1, n)

RECURSIVE SumOf(_, _, _)
SumOf(f, lo, hi) ==
    IF lo > hi THEN 0
    ELSE IF lo = hi THEN f[lo]
    ELSE SumOf(f, lo, (lo + hi) \div 2) + SumOf(f, (lo + hi) \div 2 + 1, hi)

Min(a, b) == IF a < b THEN a ELSE b

\* C11 (SpecView): on every row of the view trend_signal is Bullish exactly
\* when sma_50 > sma_200, Bearish exactly when sma_50 < sma_200 and Neutral
\* exactly when they are equal; it is always one of the three.
TrendConsistent ==
    pc = "queried" =>
        \A r \in analysis :
            /\ r.trend_signal \in {"Bullish", "Bearish", "Neutral"}
            /\ r.trend_signal = "Bullish" <=>
                  r.sma_50.num * r.sma_200.den > r.sma_200.num * r.sma_50.den
            /\ r.trend_signal = "Bearish" <=>
                  r.sma_50.num * r.sma_200.den < r.sma_200.num * r.sma_50.den
            /\ r.trend_signal = "Neutral" <=>
                  r.sma_50.num * r.sma_200.den = r.sma_200.num * r.sma_50.den

\* a history whose view has Bullish rows and Neutral rows beyond the 50th
TrendConsistentWitness ==
    /\ pc = "queried"
    /\ \E r \in analysis : r.trend_signal = "Bullish"
    /\ \E r \in analysis : r.trend_signal = "Neutral" /\ r.sma_200.den = 200

\* C12 (SpecView): for the row at position k (0-based) of a ticker in date
\* order, sma_50 is the mean of the last min(k+1, 50) prices up to and
\* including the row, sma_200 that of the last min(k+1, 200), high_52week the
\* largest of the last min(k+1, 252); each is a value, never NULL.
WindowCorrect ==
    pc = "queried" =>
        \A t \in StoredTickers :
            LET pos   == PositionByDate(t)
                price == PriceByPosition(t)
            IN  \A r \in {a \in analysis : a.Ticker = t} :
                    LET k1 == pos[r.Date]
                        n50 == Min(k1, 50)
                        n200 == Min(k1, 200)
                        n252 == Min(k1, 252)
                    IN  /\ r.sma_50.den > 0
                        /\ r.sma_50.num * n50 =
                              SumOf(price, k1 - n50 + 1, k1) * r.sma_50.den
                        /\ r.sma_200.den > 0
                        /\ r.sma_200.num * n200 =
                              SumOf(price, k1 - n200 + 1, k1) * r.sma_200.den
                        /\ \E j \in (k1 - n252 + 1)..k1 : price[j] = r.high_52week
                        /\ \A j \in (k1 - n252 + 1)..k1 : price[j] <= r.high_52week

\* the last row of a history longer than 252 rows whose first price was the
\* highest: the high has left the window, and so has the first price the
\* 200-row mean
WindowCorrectWitness ==
    /\ pc = "queried"
    /\ \E x \in raw_stocks : x.Date = 1 /\ x.Price = 102
    /\ \E r \in analysis :
          /\ r.Date = LongLength
          /\ r.high_52week = 100
          /\ r.sma_200 = [num |-> 20000, den |-> 200]
          /\ r.sma_50 = [num |-> 5000, den |-> 50]

\* C13 as claimed (SpecView): daily_return_pct is NULL exactly on the first
\* row of a ticker and after a price of zero; otherwise it is exactly
\* (price - previous price) / previous price * 100.
DailyReturnExact ==
    pc = "queried" =>
        \A t \in StoredTickers :
            LET pos   == PositionByDate(t)
                price == PriceByPosition(t)
            IN  \A r \in {a \in analysis : a.Ticker = t} :
                    LET k1 == pos[r.Date]
                    IN  IF k1 = 1 \/ price[k1 - 1] = 0
                        THEN r.daily_return_pct = None
                        ELSE /\ r.daily_return_pct # None
                             /\ r.daily_return_pct[1] * price[k1 - 1] =
                                   (r.Price - price[k1 - 1]) * 100 * 10000

\* C13 as amended (SpecView): the same, with the value rounded to 4 decimal
\* places: it is within half of 0.0001 of the exact quotient.
DailyReturnRounded ==
    pc = "queried" =>
        \A t \in StoredTickers :
            LET pos   == PositionByDate(t)
                price == PriceByPosition(t)
            IN  \A r \in {a \in analysis : a.Ticker = t} :
                    LET k1 == pos[r.Date]
                    IN  IF k1 = 1 \/ price[k1 - 1] = 0
                        THEN r.daily_return_pct = None
                        ELSE LET prev  == price[k1 - 1]
                                 exact == (r.Price - prev) * 100 * 10000
                                 diff  == r.daily_return_pct[1] * prev - exact
                             IN  /\ r.daily_return_pct # None
                                 /\ r.Price = price[k1]
                                 /\ 2 * diff <= prev
                                 /\ 2 * (0 - diff) <= prev

\* prices 100 then 102 give 2.0000; 3 then 4 give 33.3333; a price after a
\* price of zero gives NULL
DailyReturnRoundedWitness ==
    /\ pc = "queried"
    /\ \/ \E r \in analysis : r.Price = 102 /\ r.daily_return_pct = <<20000>>
       \/ \E r \in analysis : r.Price = 4 /\ r.daily_return_pct = <<333333>>
    /\ \E r \in analysis : r.Date > 3 /\ r.Ticker = "AAPL" /\ r.daily_return_pct = None

\* the columns of a view row that the query computes
Computed(r) ==
    [Date |-> r.Date, daily_return_pct |-> r.daily_return_pct, sma_50 |-> r.sma_50,
     sma_200 |-> r.sma_200, high_52week |-> r.high_52week,
     trend_signal |-> r.trend_signal, pct_from_52wk_high |-> r.pct_from_52wk_high]

\* C14 (SpecView): the computed columns of the rows of a ticker are those the
\* view gives over a price store holding the rows of that ticker alone, so
\* they do not depend on the rows of other tickers.
Partitioned ==
    pc = "queried" =>
        \A t \in StoredTickers :
            {Computed(r) : r \in {a \in analysis : a.Ticker = t}} =
               {Computed(r) : r \in VStockAnalysis(RowsOf(raw_stocks, t), ticker_metadata)}

\* two tickers, with a row of one dated between two rows of the other
PartitionedWitness ==
    /\ pc = "queried"
    /\ \E a, b \in analysis : \E m \in analysis :
          /\ a.Ticker = "AAPL" /\ b.Ticker = "AAPL" /\ m.Ticker = "MSFT"
          /\ a.Date < m.Date /\ m.Date < b.Date
          /\ b.daily_return_pct # None
          /\ m.Price # a.Price

\* C15 (SpecView): the view has exactly one row for each stored price
\* observation, with its price and volume, and no other row; sector and
\* company_name are those of the ticker's metadata row, NULL when it has none.
OneRowPerObservation ==
    pc = "queried" =>
        /\ \A x \in raw_stocks :
              Cardinality({r \in analysis : r.Date = x.Date /\ r.Ticker = x.Ticker}) = 1
        /\ \A r \in analysis :
              /\ [Date |-> r.Date, Ticker |-> r.Ticker, Price |-> r.Price,
                  Volume |-> r.Volume] \in raw_stocks
              /\ IF r.Ticker \in SelectTickers(ticker_metadata)
                 THEN \E m \in ticker_metadata :
                         /\ m.ticker = r.Ticker
                         /\ r.sector = <<m.sector>>
                         /\ r.company_name = <<m.company_name>>
                 ELSE r.sector = None /\ r.company_name = None
        /\ Cardinality(analysis) = Cardinality(raw_stocks)

\* price rows of a ticker without metadata shown next to rows of a ticker
\* with metadata
OneRowPerObservationWitness ==
    /\ pc = "queried"
    /\ \E r \in analysis :
          r.Ticker \notin SelectTickers(ticker_metadata) /\ r.sector = None
    /\ \E r \in analysis : r.sector = <<"Technology">>

\* C19 (SpecView): each of the first 50 rows of a ticker in date order has
\* sma_50 = sma_200 and the signal Neutral.
ShortHistoryNeutral ==
    pc = "queried" =>
        \A t \in StoredTickers :
            LET pos == PositionByDate(t)
            IN  \A r \in {a \in analysis : a.Ticker = t} :
                    pos[r.Date] <= 50 =>
                        /\ r.sma_50.num * r.sma_200.den = r.sma_200.num * r.sma_50.den
                        /\ r.trend_signal = "Neutral"

\* the 50th row of a history is Neutral although its prices changed, and
\* the 51st is not
ShortHistoryNeutralWitness ==
    /\ pc = "queried"
    /\ \E r, q \in analysis :
          /\ r.Ticker = q.Ticker
          /\ r.Date = 50 /\ r.sma_50.den = 50 /\ r.trend_signal = "Neutral"
          /\ r.sma_50.num # 50 * r.Price
          /\ q.Date = 51 /\ q.trend_signal # "Neutral"

AllPricesPositive == \A x \in raw_stocks : x.Price > 0

\* C20 as claimed (SpecView): price <= high_52week on every row;
\* pct_from_52wk_high is NULL when high_52week is zero; when all stored prices
\* are positive it is never above 0 and is 0 exactly when the price is the
\* high of the window.
PctRangeExact ==
    pc = "queried" =>
        \A r \in analysis :
            /\ r.Price <= r.high_52week
            /\ r.high_52week = 0 => r.pct_from_52wk_high = None
            /\ AllPricesPositive =>
                  /\ r.pct_from_52wk_high # None
                  /\ r.pct_from_52wk_high[1] <= 0
                  /\ r.pct_from_52wk_high[1] = 0 <=> r.Price = r.high_52week

\* C20 as amended (SpecView): the same, except that the value is 0 exactly
\* when it rounds to 0.00: when the price is the high of the window or less
\* than 0.005 % of the high below it.
PctRangeRounded ==
    pc = "queried" =>
        \A r \in analysis :
            /\ r.Price <= r.high_52week
            /\ r.high_52week = 0 => r.pct_from_52wk_high = None
            /\ AllPricesPositive =>
                  /\ r.pct_from_52wk_high # None
                  /\ r.pct_from_52wk_high[1] <= 0
                  /\ r.Price = r.high_52week => r.pct_from_52wk_high[1] = 0
                  /\ r.pct_from_52wk_high[1] = 0 <=>
                        2 * (r.high_52week - r.Price) * 100 * 100 < r.high_52week

\* a row below its high that shows 0.00, a row at its high, and in another
\* ticker a row clearly below its high
PctRangeRoundedWitness ==
    /\ pc = "queried"
    /\ AllPricesPositive
    /\ \E r \in analysis : r.Price < r.high_52week /\ r.pct_from_52wk_high = <<0>>
    /\ \E r \in analysis : r.Price = r.high_52week /\ r.pct_from_52wk_high = <<0>>
    /\ \E r \in analysis : r.pct_from_52wk_high # None /\ r.pct_from_52wk_high[1] < 0

====
